---- MODULE Spec2Model ----
(***************************************************************************)
(* A model of find-projects.py, the discovery script of the JetBrains      *)
(* search provider: it looks up the config directories of each JetBrains   *)
(* product, picks the one with the highest version, reads its recent       *)
(* projects file and prints the projects found as one JSON document.       *)
(*                                                                         *)
(* Three specifications share this module:                                 *)
(*   SpecVersion  product_version applied to config directory names        *)
(*   SpecLatest   find_latest_recent_projects_file over an enumeration     *)
(*   Spec         a whole run of main over a file system                   *)
(*                                                                         *)
(* Text that the program inspects character by character (the name of a    *)
(* config directory) is a sequence of one-character strings.  Text that    *)
(* the program only concatenates (keys, path components, ids) is a TLA+    *)
(* string, concatenated with \o.                                           *)
(***************************************************************************)
EXTENDS Integers, Sequences, FiniteSets, TLC

VARIABLES
    (* SpecVersion *)
    vname,        \* the characters of a config directory name after the product prefix
    vresult,      \* what product_version made of it
    (* SpecLatest *)
    lproduct,     \* index into PRODUCTS
    lenum,        \* the config directories in the order the glob yields them
    lpc,          \* where find_latest_recent_projects_file stands
    lselected,    \* index into lenum of the directory max() returned, 0 for None
    lfile,        \* the value find_latest_recent_projects_file returned
    (* Spec: the file system, read only *)
    configDirs,   \* per product, the config directories in the order the glob yields them
    xmlFiles,     \* per product, the recent projects file of its config directories
    fs,           \* the project tree: absolute path -> kind of node
    (* Spec: the run of main *)
    pc,           \* "product", "paths", "raised", "done"
    idx,          \* index into PRODUCTS of the product being discovered
    queue,        \* recentPaths values of the current product not yet looked at
    entry,        \* position in recentPaths of the head of queue
    current,      \* records find_recent_projects has yielded for the current product
    projects,     \* the (key, records) pairs find_all_recent_projects has yielded
    exc,          \* the exception that left find_all_recent_projects, if any
    stdout,       \* the JSON documents printed
    exitStatus    \* the exit status of the process, -1 while it runs

versionVars == <<vname, vresult>>
latestVars == <<lproduct, lenum, lpc, lselected, lfile>>
worldVars == <<configDirs, xmlFiles, fs>>
runVars == <<pc, idx, queue, entry, current, projects, exc, stdout, exitStatus>>
vars == <<versionVars, latestVars, worldVars, runVars>>

(***************************************************************************)
(* Bounds of the model.                                                    *)
(***************************************************************************)
MaxNameLen == 8   \* characters of a directory name after the prefix (SpecVersion)
MaxDirs == 2      \* config directories of one product (SpecLatest)
MaxPaths == 2     \* recentPaths entries in all recent projects files together (Spec)

(***************************************************************************)
(* PRODUCTS                                                                *)
(***************************************************************************)
PRODUCTS ==
    << [key |-> "idea",     config_glob |-> "IntelliJIdea"],
       [key |-> "idea-ce",  config_glob |-> "IdeaIC"],
       [key |-> "webstorm", config_glob |-> "WebStorm"],
       [key |-> "clion",    config_glob |-> "CLion"],
       [key |-> "goland",   config_glob |-> "GoLand"],
       [key |-> "pycharm",  config_glob |-> "PyCharm"],
       [key |-> "phpstorm", config_glob |-> "PhpStorm"],
       [key |-> "rider",    config_glob |-> "Rider"] >>

ProductIds == 1..Len(PRODUCTS)

(***************************************************************************)
(* product_version.  The name of a config directory is the glob's prefix   *)
(* followed by the characters modelled here; no prefix holds a digit or a  *)
(* dot, so re.search finds in the whole name what it finds after the       *)
(* prefix, shifted.                                                        *)
(***************************************************************************)
Digits == {"0", "1", "2", "3", "4", "5", "6", "7", "8", "9"}

DigitValue(c) ==
    CASE c = "0" -> 0 [] c = "1" -> 1 [] c = "2" -> 2 [] c = "3" -> 3
      [] c = "4" -> 4 [] c = "5" -> 5 [] c = "6" -> 6 [] c = "7" -> 7
      [] c = "8" -> 8 [] c = "9" -> 9

RECURSIVE int(_)
int(s) ==
    IF s = <<>> THEN 0
    ELSE 10 * int(SubSeq(s, 1, Len(s) - 1)) + DigitValue(s[Len(s)])

\* Does \d{4}\.\d match at position i of s?
VersionMatchAt(s, i) ==
    /\ i + 5 <= Len(s)
    /\ \A k \in i..(i + 3) : s[k] \in Digits
    /\ s[i + 4] = "."
    /\ s[i + 5] \in Digits

\* The position of the last character of the match at i: \d{1,2} is greedy
\* and takes a second digit when there is one, never a third.
VersionMatchEnd(s, i) ==
    IF i + 6 <= Len(s) /\ s[i + 6] \in Digits THEN i + 6 ELSE i + 5

\* re.search: the leftmost position where the pattern matches, 0 for no match.
VersionSearch(s) ==
    IF \E i \in 1..Len(s) : VersionMatchAt(s, i)
    THEN CHOOSE i \in 1..Len(s) :
            /\ VersionMatchAt(s, i)
            /\ \A j \in 1..(i - 1) : ~VersionMatchAt(s, j)
    ELSE 0

product_version(s) ==
    LET i == VersionSearch(s) IN
    IF i # 0
    THEN [raised |-> "none",
          value |-> << int(SubSeq(s, i, i + 3)),
                       int(SubSeq(s, i + 5, VersionMatchEnd(s, i))) >>]
    ELSE [raised |-> "ValueError", value |-> <<>>]

(***************************************************************************)
(* SpecVersion: product_version on every name of at most MaxNameLen         *)
(* characters over a small alphabet.                                       *)
(***************************************************************************)
NameAlphabet == {"1", "2", "."}

RECURSIVE NamesOfLen(_)
NamesOfLen(n) ==
    IF n = 0 THEN {<<>>}
    ELSE {Append(s, c) : s \in NamesOfLen(n - 1), c \in NameAlphabet}

NotParsed == [raised |-> "pending", value |-> <<>>]

InitVersion ==
    /\ vname \in UNION {NamesOfLen(n) : n \in 0..MaxNameLen}
    /\ vresult = NotParsed

ParseVersion ==
    /\ vresult = NotParsed
    /\ product_version(vname).raised = "none"
    /\ vresult' = product_version(vname)
    /\ UNCHANGED vname

RejectVersion ==
    /\ vresult = NotParsed
    /\ product_version(vname).raised # "none"
    /\ vresult' = product_version(vname)
    /\ UNCHANGED vname

(***************************************************************************)
(* find_config_directories and find_latest_recent_projects_file.           *)
(*                                                                         *)
(* A glob is a product's prefix followed by a star, and no prefix begins   *)
(* another, so the directories a glob yields are those of one product; an  *)
(* enumeration is the sequence of their names (the part after the prefix)  *)
(* in the order the glob yields them, which the file system decides.       *)
(***************************************************************************)
find_config_directories(dirs, p) == dirs[p]

TupleGreaterOrSame(a, b) ==
    \/ a[1] > b[1]
    \/ a[1] = b[1] /\ a[2] >= b[2]

\* Python's order on (year, revision) tuples.
TupleGreater(a, b) ==
    \/ a[1] > b[1]
    \/ a[1] = b[1] /\ a[2] > b[2]

\* max(iterable, key=...): the item kept is replaced only by one whose key is
\* greater, so of several items with the greatest key the first one stays.
RECURSIVE MaxIndexFrom(_, _, _)
MaxIndexFrom(keys, i, best) ==
    IF i > Len(keys) THEN best
    ELSE MaxIndexFrom(keys, i + 1,
                      IF TupleGreater(keys[i], keys[best]) THEN i ELSE best)

\* max(..., key=product_version, default=None) as an index into the
\* enumeration, 0 for None.  The key is computed for every item, also for a
\* single one, and an exception of the key function leaves max.
MaxConfigDir(enum) ==
    IF \E i \in 1..Len(enum) : product_version(enum[i]).raised # "none"
    THEN [raised |-> "ValueError", index |-> 0]
    ELSE IF enum = <<>>
    THEN [raised |-> "none", index |-> 0]
    ELSE [raised |-> "none",
          index |-> MaxIndexFrom([i \in 1..Len(enum) |-> product_version(enum[i]).value], 2, 1)]

AlwaysRecentProjects(key) == "options/recentProjects.xml"

\* The file below the config directory, lines 72-75.
RecentFileName(key) ==
    IF key = "rider" THEN "options/recentSolutions.xml"
    ELSE "options/recentProjects.xml"

None == [dir |-> <<>>, rel |-> "None"]

ConfigFile(p, enum, index) ==
    IF index # 0
    THEN [dir |-> enum[index], rel |-> RecentFileName(PRODUCTS[p].key)]
    ELSE None

find_latest_recent_projects_file(p, enum) ==
    LET m == MaxConfigDir(enum) IN
    [raised |-> m.raised,
     index |-> m.index,
     file |-> IF m.raised = "none" THEN ConfigFile(p, enum, m.index) ELSE None]

(***************************************************************************)
(* SpecLatest: find_latest_recent_projects_file for every product over     *)
(* every enumeration of at most MaxDirs distinct directory names.          *)
(***************************************************************************)
DirNames ==
    { <<"2", "0", "1", "9", ".", "3">>,
      <<"2", "0", "2", "3", ".", "1">>,
      <<"2", "0", "2", "3", ".", "0", "1">>,
      <<"2", "0", "2", "3", ".", "2">>,
      <<"2", "0", "2", "3", ".", "9">>,
      <<"2", "0", "2", "3", ".", "1", "0">>,
      <<"2", "0", "2", "3", ".", "1", "1">>,
      <<"2", "0", "2", "3", ".", "1", "0", "0">>,
      <<"2", "0", "2", "3">> }

RECURSIVE Enumerations(_, _)
Enumerations(names, n) ==
    IF n = 0 THEN {<<>>}
    ELSE LET shorter == Enumerations(names, n - 1) IN
         shorter \cup
         {Append(e, d) : e \in {x \in shorter : Len(x) = n - 1}, d \in names}

Distinct(e) == \A i, j \in 1..Len(e) : i # j => e[i] # e[j]

InitLatest ==
    /\ lproduct \in ProductIds
    /\ lenum \in {e \in Enumerations(DirNames, MaxDirs) : Distinct(e)}
    /\ lpc = "start"
    /\ lselected = 0
    /\ lfile = None

SelectLatest ==
    /\ lpc = "start"
    /\ MaxConfigDir(find_config_directories([q \in ProductIds |-> lenum], lproduct)).raised = "none"
    /\ lselected' = MaxConfigDir(lenum).index
    /\ lpc' = "selected"
    /\ UNCHANGED <<lproduct, lenum, lfile>>

SelectRaises ==
    /\ lpc = "start"
    /\ MaxConfigDir(lenum).raised # "none"
    /\ lpc' = "raised"
    /\ UNCHANGED <<lproduct, lenum, lselected, lfile>>

ReturnFile ==
    /\ lpc = "selected"
    /\ lselected # 0
    /\ lfile' = find_latest_recent_projects_file(lproduct, lenum).file
    /\ lpc' = "returned"
    /\ UNCHANGED <<lproduct, lenum, lselected>>

ReturnNone ==
    /\ lpc = "selected"
    /\ lselected = 0
    /\ lfile' = find_latest_recent_projects_file(lproduct, lenum).file
    /\ lpc' = "returned"
    /\ UNCHANGED <<lproduct, lenum, lselected>>

(***************************************************************************)
(* Paths.  A pathlib.Path is its root flag and its components; the value   *)
(* of a recentPaths option is a sequence of tokens, each a separator "/",  *)
(* the placeholder "$USER_HOME$" or a component.                           *)
(***************************************************************************)
Home == [root |-> TRUE, parts |-> <<"h">>]
Cwd == [root |-> TRUE, parts |-> <<"h">>]

\* value.replace('$USER_HOME$', '~')
ReplaceUserHome(v) ==
    [i \in 1..Len(v) |-> IF v[i] = "$USER_HOME$" THEN "~" ELSE v[i]]

IsComponent(t) == t # "/"

\* Path(text)
Path(v) ==
    [root |-> v # <<>> /\ v[1] = "/", parts |-> SelectSeq(v, IsComponent)]

ValueToPath(v) == Path(ReplaceUserHome(v))

\* Path.expanduser(): a leading "~" component of a relative path becomes the
\* home directory.
expanduser(path) ==
    IF ~path.root /\ path.parts # <<>> /\ path.parts[1] = "~"
    THEN [root |-> TRUE, parts |-> Home.parts \o Tail(path.parts)]
    ELSE path

RECURSIVE JoinParts(_)
JoinParts(parts) ==
    IF parts = <<>> THEN ""
    ELSE IF Len(parts) = 1 THEN parts[1]
    ELSE parts[1] \o "/" \o JoinParts(Tail(parts))

\* str(path)
Str(path) == (IF path.root THEN "/" ELSE "") \o JoinParts(path.parts)

\* path.parent, path.name and path / child of a path with components
Parent(path) == [path EXCEPT !.parts = SubSeq(path.parts, 1, Len(path.parts) - 1)]
BaseName(path) == path.parts[Len(path.parts)]
Child(path, name) == [path EXCEPT !.parts = Append(path.parts, name)]

(***************************************************************************)
(* The file system as the operating system answers: a relative path is     *)
(* looked up below the working directory; a path outside the modelled tree *)
(* does not exist.                                                         *)
(***************************************************************************)
Absolute(path) ==
    IF path.root THEN path ELSE [root |-> TRUE, parts |-> Cwd.parts \o path.parts]

Kind(f, path) ==
    LET s == Str(Absolute(path)) IN
    IF s \in DOMAIN f THEN f[s] ELSE "absent"

Ancestor(path, k) == [root |-> TRUE, parts |-> SubSeq(Absolute(path).parts, 1, k)]

\* The error of walking down to the path's parent: the first ancestor that
\* is missing (ENOENT) or is no directory (ENOTDIR) decides.
WalkError(f, path) ==
    LET n == Len(Absolute(path).parts)
        bad == {k \in 0..(n - 1) : Kind(f, Ancestor(path, k)) # "dir"}
    IN  IF bad = {} THEN "none"
        ELSE LET k == CHOOSE x \in bad : \A y \in bad : x <= y IN
             IF Kind(f, Ancestor(path, k)) = "absent"
             THEN "FileNotFoundError" ELSE "NotADirectoryError"

\* Path.exists() and Path.is_file(): stat() failing means no.
Exists(f, path) == WalkError(f, path) = "none" /\ Kind(f, path) # "absent"
IsFile(f, path) == WalkError(f, path) = "none" /\ Kind(f, path) \in {"file", "locked"}

\* What every readable .name file of the modelled tree holds.
NameFileContent == <<"MyApp", "\n">>

Whitespace == {" ", "\n", "\t"}

\* str.strip()
RECURSIVE strip(_)
strip(text) ==
    IF text = <<>> THEN text
    ELSE IF text[1] \in Whitespace THEN strip(Tail(text))
    ELSE IF text[Len(text)] \in Whitespace THEN strip(SubSeq(text, 1, Len(text) - 1))
    ELSE text

RECURSIVE Concat(_)
Concat(text) == IF text = <<>> THEN "" ELSE text[1] \o Concat(Tail(text))

\* Path.read_text()
read_text(f, path) ==
    LET w == WalkError(f, path)
        k == Kind(f, path)
    IN  IF w # "none" THEN [raised |-> w, text |-> <<>>]
        ELSE IF k = "absent" THEN [raised |-> "FileNotFoundError", text |-> <<>>]
        ELSE IF k = "dir" THEN [raised |-> "IsADirectoryError", text |-> <<>>]
        ELSE IF k = "locked" THEN [raised |-> "PermissionError", text |-> <<>>]
        ELSE [raised |-> "none", text |-> NameFileContent]

(***************************************************************************)
(* get_project                                                             *)
(***************************************************************************)
NoRecord == [id |-> "", name |-> "", path |-> "", abspath |-> ""]

ProjectDir(f, path) == IF IsFile(f, expanduser(path)) THEN Parent(path) ELSE path

NameFile(f, path) == Child(Child(ProjectDir(f, path), ".idea"), ".name")

CaughtAlways(error) == TRUE

\* except FileNotFoundError
Caught(error) == error = "FileNotFoundError"

ProjectId(key, path) ==
    "jetbrains-search-provider-" \o key \o "-" \o Str(expanduser(path))

get_project(f, key, path) ==
    LET read == read_text(f, NameFile(f, path)) IN
    IF read.raised # "none" /\ ~Caught(read.raised)
    THEN [raised |-> read.raised, record |-> NoRecord]
    ELSE [raised |-> "none",
          record |-> [id |-> ProjectId(key, path),
                      name |-> IF read.raised = "none"
                               THEN Concat(strip(read.text))
                               ELSE BaseName(path),
                      path |-> Str(path),
                      abspath |-> Str(expanduser(path))]]

(***************************************************************************)
(* find_recent_projects, find_all_recent_projects and main                 *)
(***************************************************************************)
\* Path.exists(config_file): every config directory of a product holds the
\* product's recent projects file at the same place, xml.at.
ConfigFileExists(file, xml) == file.rel = xml.at

TreatNoneAsFile(file, xml) == file = None \/ ConfigFileExists(file, xml)

\* config_file and Path.exists(config_file)
HasRecentFile(file, xml) == file # None /\ ConfigFileExists(file, xml)

\* etree.parse and document.findall
ParseRecentProjects(file, xml) ==
    IF file = None THEN [raised |-> "TypeError", values |-> <<>>]
    ELSE IF ~ConfigFileExists(file, xml)
    THEN [raised |-> "FileNotFoundError", values |-> <<>>]
    ELSE IF ~xml.wellFormed THEN [raised |-> "ParseError", values |-> <<>>]
    ELSE [raised |-> "none", values |-> xml.recentPaths]

EmitAlways(f, path) == TRUE

\* if Path.exists(path.expanduser())
ShouldEmit(f, path) == Exists(f, expanduser(path))

\* What the loop body of find_all_recent_projects does for product p before
\* it looks at the first path.
ProductOutcome(dirs, xmls, p) ==
    LET latest == find_latest_recent_projects_file(p, find_config_directories(dirs, p)) IN
    IF latest.raised # "none" THEN [kind |-> "raise", raised |-> latest.raised, values |-> <<>>]
    ELSE IF ~HasRecentFile(latest.file, xmls[p])
    THEN [kind |-> "empty", raised |-> "none", values |-> <<>>]
    ELSE LET parsed == ParseRecentProjects(latest.file, xmls[p]) IN
         IF parsed.raised # "none"
         THEN [kind |-> "raise", raised |-> parsed.raised, values |-> <<>>]
         ELSE [kind |-> "open", raised |-> "none", values |-> parsed.values]

success(list) == [kind |-> "success", projects |-> list]

error(message, traceback) ==
    [kind |-> "error", message |-> message, traceback |-> traceback]

ExceptWithoutExit(e) ==
    [document |-> error(e.type, "Traceback: " \o e.type), status |-> 0]

\* except Exception as exc: the document printed and the status sys.exit is
\* given.  str(exc) and format_exc() are modelled by the exception's type.
ExceptException(e) ==
    [document |-> error(e.type, "Traceback: " \o e.type), status |-> 1]

NoException == [type |-> "none", product |-> 0, entry |-> 0]

(***************************************************************************)
(* The file systems of Spec.                                               *)
(*                                                                         *)
(* Home and working directory are /h.  The project tree holds the project  *)
(* /h/proj with a solution file f.sln and the sidecar .idea/.name in       *)
(* every state the program distinguishes, and the directories /h/x and     *)
(* /h/ce-x, which have no .idea.                                           *)
(***************************************************************************)
FsOf(proj, sln, idea, name) ==
    [s \in {"/", "/h", "/h/proj", "/h/proj/f.sln", "/h/proj/.idea",
            "/h/proj/.idea/.name", "/h/x", "/h/ce-x"} |->
        CASE s = "/h/proj" -> proj
          [] s = "/h/proj/f.sln" -> sln
          [] s = "/h/proj/.idea" -> idea
          [] s = "/h/proj/.idea/.name" -> name
          [] OTHER -> "dir"]

FsStates ==
    { FsOf(proj, sln, idea, name) :
        proj \in {"absent", "dir"}, sln \in {"absent", "file"},
        idea \in {"absent", "dir", "file"},
        name \in {"absent", "file", "dir", "locked"} }

\* Below a node that is no directory there is nothing.
FsConsistent(f) ==
    /\ f["/h/proj"] # "dir" => f["/h/proj/f.sln"] = "absent" /\ f["/h/proj/.idea"] = "absent"
    /\ f["/h/proj/.idea"] # "dir" => f["/h/proj/.idea/.name"] = "absent"

PathValues ==
    { <<"$USER_HOME$", "/", "proj">>,
      <<"/", "h", "/", "proj">>,
      <<"/", "h", "/", "proj", "/", "f.sln">>,
      <<"x">>,
      <<"ce-x">> }

\* The products that have config directories in some modelled file system.
ModelProducts == {1, 2, 8}

GoodDirs == << <<"2", "0", "1", "9", ".", "3">>, <<"2", "0", "2", "3", ".", "2">> >>
BadDirs == << <<"2", "0", "2", "3">> >>

NoXml == [at |-> "none", wellFormed |-> TRUE, recentPaths |-> <<>>]

Unpopulated == [dirs |-> <<>>, xml |-> NoXml]

\* What one product can have with at most n recentPaths entries: nothing, a
\* directory with a malformed name, or well-named directories with no
\* recent projects file, a malformed one or a well-formed one.
ProductWorlds(p, n) ==
    {Unpopulated, [dirs |-> BadDirs, xml |-> NoXml], [dirs |-> GoodDirs, xml |-> NoXml],
     [dirs |-> GoodDirs,
      xml |-> [at |-> RecentFileName(PRODUCTS[p].key), wellFormed |-> FALSE,
               recentPaths |-> <<>>]]}
    \cup
    { [dirs |-> GoodDirs,
       xml |-> [at |-> RecentFileName(PRODUCTS[p].key), wellFormed |-> TRUE,
                recentPaths |-> l]] :
        l \in {e \in Enumerations(PathValues, n) : Distinct(e)} }

\* At most two products have config directories, and all recent projects
\* files together hold at most MaxPaths entries.
WorldsOf(a, b) ==
    UNION { { [p \in ProductIds |->
                  IF p = a THEN wa ELSE IF p = b THEN wb ELSE Unpopulated] :
              wb \in ProductWorlds(b, MaxPaths - Len(wa.xml.recentPaths)) } :
            wa \in ProductWorlds(a, MaxPaths) }

Worlds ==
    UNION { WorldsOf(ab[1], ab[2]) :
            ab \in {x \in ModelProducts \X ModelProducts : x[1] < x[2]} }

(***************************************************************************)
(* The variables of the specifications that are not running.               *)
(***************************************************************************)
IdleVersion == vname = <<>> /\ vresult = NotParsed
IdleLatest ==
    /\ lproduct = 1
    /\ lenum = <<>>
    /\ lpc = "idle"
    /\ lselected = 0
    /\ lfile = None
IdleRun ==
    /\ configDirs = [p \in ProductIds |-> <<>>]
    /\ xmlFiles = [p \in ProductIds |-> NoXml]
    /\ fs = FsOf("absent", "absent", "absent", "absent")
    /\ pc = "idle"
    /\ idx = 0
    /\ queue = <<>>
    /\ entry = 0
    /\ current = <<>>
    /\ projects = <<>>
    /\ exc = NoException
    /\ stdout = <<>>
    /\ exitStatus = -1

(***************************************************************************)
(* Spec: a run of main.                                                    *)
(***************************************************************************)
InitRun ==
    /\ \E w \in Worlds :
        /\ configDirs = [p \in ProductIds |-> w[p].dirs]
        /\ xmlFiles = [p \in ProductIds |-> w[p].xml]
    /\ fs \in {f \in FsStates : FsConsistent(f)}
    /\ pc = "product"
    /\ idx = 1
    /\ queue = <<>>
    /\ entry = 0
    /\ current = <<>>
    /\ projects = <<>>
    /\ exc = NoException
    /\ stdout = <<>>
    /\ exitStatus = -1

Init == InitRun /\ IdleVersion /\ IdleLatest

Discovering == pc = "product" /\ idx \in ProductIds

\* No recent projects file: yield (product.key, []).
DiscoverEmpty ==
    /\ Discovering
    /\ ProductOutcome(configDirs, xmlFiles, idx).kind = "empty"
    /\ projects' = Append(projects, <<PRODUCTS[idx].key, <<>>>>)
    /\ idx' = idx + 1
    /\ UNCHANGED <<pc, queue, entry, current, exc, stdout, exitStatus>>
    /\ UNCHANGED <<versionVars, latestVars, worldVars>>

\* product_version or etree.parse raises.
DiscoverRaises ==
    /\ Discovering
    /\ ProductOutcome(configDirs, xmlFiles, idx).kind = "raise"
    /\ exc' = [type |-> ProductOutcome(configDirs, xmlFiles, idx).raised,
               product |-> idx, entry |-> 0]
    /\ pc' = "raised"
    /\ UNCHANGED <<idx, queue, entry, current, projects, stdout, exitStatus>>
    /\ UNCHANGED <<versionVars, latestVars, worldVars>>

\* The file is parsed; find_recent_projects starts on its paths.
OpenRecentProjects ==
    /\ Discovering
    /\ ProductOutcome(configDirs, xmlFiles, idx).kind = "open"
    /\ queue' = ProductOutcome(configDirs, xmlFiles, idx).values
    /\ entry' = 1
    /\ current' = <<>>
    /\ pc' = "paths"
    /\ UNCHANGED <<idx, projects, exc, stdout, exitStatus>>
    /\ UNCHANGED <<versionVars, latestVars, worldVars>>

\* The path does not exist: nothing is yielded for it.
SkipMissing ==
    /\ pc = "paths"
    /\ queue # <<>>
    /\ ~ShouldEmit(fs, ValueToPath(Head(queue)))
    /\ queue' = Tail(queue)
    /\ entry' = entry + 1
    /\ UNCHANGED <<pc, idx, current, projects, exc, stdout, exitStatus>>
    /\ UNCHANGED <<versionVars, latestVars, worldVars>>

\* The path exists and get_project returns its record.
EmitProject ==
    /\ pc = "paths"
    /\ queue # <<>>
    /\ ShouldEmit(fs, ValueToPath(Head(queue)))
    /\ get_project(fs, PRODUCTS[idx].key, ValueToPath(Head(queue))).raised = "none"
    /\ current' = Append(current,
                         get_project(fs, PRODUCTS[idx].key, ValueToPath(Head(queue))).record)
    /\ queue' = Tail(queue)
    /\ entry' = entry + 1
    /\ UNCHANGED <<pc, idx, projects, exc, stdout, exitStatus>>
    /\ UNCHANGED <<versionVars, latestVars, worldVars>>

\* The path exists and get_project raises.
ProjectRaises ==
    /\ pc = "paths"
    /\ queue # <<>>
    /\ ShouldEmit(fs, ValueToPath(Head(queue)))
    /\ get_project(fs, PRODUCTS[idx].key, ValueToPath(Head(queue))).raised # "none"
    /\ exc' = [type |-> get_project(fs, PRODUCTS[idx].key, ValueToPath(Head(queue))).raised,
               product |-> idx, entry |-> entry]
    /\ pc' = "raised"
    /\ UNCHANGED <<idx, queue, entry, current, projects, stdout, exitStatus>>
    /\ UNCHANGED <<versionVars, latestVars, worldVars>>

\* find_recent_projects is exhausted: yield (product.key, records).
YieldProduct ==
    /\ pc = "paths"
    /\ queue = <<>>
    /\ projects' = Append(projects, <<PRODUCTS[idx].key, current>>)
    /\ current' = <<>>
    /\ entry' = 0
    /\ idx' = idx + 1
    /\ pc' = "product"
    /\ UNCHANGED <<queue, exc, stdout, exitStatus>>
    /\ UNCHANGED <<versionVars, latestVars, worldVars>>

\* print(json.dumps(success(projects))) and the end of the process.
PrintSuccess ==
    /\ pc = "product"
    /\ idx \notin ProductIds
    /\ stdout' = Append(stdout, success(projects))
    /\ exitStatus' = 0
    /\ pc' = "done"
    /\ UNCHANGED <<idx, queue, entry, current, projects, exc>>
    /\ UNCHANGED <<versionVars, latestVars, worldVars>>

\* except Exception: print(json.dumps(error(...))) and sys.exit(1).
PrintError ==
    /\ pc = "raised"
    /\ stdout' = Append(stdout, ExceptException(exc).document)
    /\ exitStatus' = ExceptException(exc).status
    /\ pc' = "done"
    /\ UNCHANGED <<idx, queue, entry, current, projects, exc>>
    /\ UNCHANGED <<versionVars, latestVars, worldVars>>

Next ==
    \/ DiscoverEmpty
    \/ DiscoverRaises
    \/ OpenRecentProjects
    \/ SkipMissing
    \/ EmitProject
    \/ ProjectRaises
    \/ YieldProduct
    \/ PrintSuccess
    \/ PrintError

Spec == Init /\ [][Next]_vars

(***************************************************************************)
(* SpecVersion and SpecLatest                                              *)
(***************************************************************************)
InitV == InitVersion /\ IdleLatest /\ IdleRun

NextV ==
    \/ ParseVersion /\ UNCHANGED <<latestVars, worldVars, runVars>>
    \/ RejectVersion /\ UNCHANGED <<latestVars, worldVars, runVars>>

SpecVersion == InitV /\ [][NextV]_vars

InitL == InitLatest /\ IdleVersion /\ IdleRun

NextL ==
    \/ SelectLatest /\ UNCHANGED <<versionVars, worldVars, runVars>>
    \/ SelectRaises /\ UNCHANGED <<versionVars, worldVars, runVars>>
    \/ ReturnFile /\ UNCHANGED <<versionVars, worldVars, runVars>>
    \/ ReturnNone /\ UNCHANGED <<versionVars, worldVars, runVars>>

SpecLatest == InitL /\ [][NextL]_vars

(***************************************************************************)
(* What the claims speak of.                                               *)
(***************************************************************************)
\* A name of the form <prefix>\d{4}\.\d+ (the prefix is not modelled).
IsVersionForm(s) ==
    /\ Len(s) >= 6
    /\ \A k \in 1..4 : s[k] \in Digits
    /\ s[5] = "."
    /\ s[6] \in Digits

\* The numeric values of the full digit runs of such a name.
FullVersion(s) ==
    LET e == CHOOSE x \in 6..Len(s) :
                /\ \A k \in 6..x : s[k] \in Digits
                /\ x = Len(s) \/ s[x + 1] \notin Digits
    IN  << int(SubSeq(s, 1, 4)), int(SubSeq(s, 6, e)) >>

\* (year, revision) tuples compared numerically, year first.
VersionAtLeast(a, b) == a[1] > b[1] \/ (a[1] = b[1] /\ a[2] >= b[2])

Reverse(e) == [i \in 1..Len(e) |-> e[Len(e) + 1 - i]]

\* The directories of lenum whose version, as product_version reads it, is
\* the greatest.
Tied ==
    {i \in 1..Len(lenum) :
        \A j \in 1..Len(lenum) :
            VersionAtLeast(product_version(lenum[i]).value, product_version(lenum[j]).value)}

Returned == lpc = "returned" /\ lselected # 0

\* The records yielded so far for product p, and the recentPaths it has.
Yielded(p) ==
    IF p <= Len(projects) THEN projects[p][2]
    ELSE IF p = idx THEN current ELSE <<>>

Values(p) == xmlFiles[p].recentPaths

\* The home-expanded path of entry k of product p.
Resolved(p, k) == expanduser(ValueToPath(Values(p)[k]))

\* Record r was made from entry k of product p.
MadeFrom(r, p, k) == r.path = Str(ValueToPath(Values(p)[k]))

\* The sidecar file of the project directory of entry k of product p.
Sidecar(p, k) ==
    LET dir == IF IsFile(fs, Resolved(p, k)) THEN Parent(Resolved(p, k)) ELSE Resolved(p, k)
    IN  Child(Child(dir, ".idea"), ".name")

ProjectDirName(p, k) ==
    BaseName(IF IsFile(fs, Resolved(p, k)) THEN Parent(Resolved(p, k)) ELSE Resolved(p, k))

\* No config directory matches the product's glob, or the directories are
\* named with a version and hold no recent projects file.
NoRecentFile(p) ==
    \/ configDirs[p] = <<>>
    \/ /\ \A i \in 1..Len(configDirs[p]) : product_version(configDirs[p][i]).raised = "none"
       /\ xmlFiles[p].at = "none"

ExistingEntries(p) == {k \in 1..Len(Values(p)) : Exists(fs, Resolved(p, k))}

SidecarErrors == {"PermissionError", "NotADirectoryError", "IsADirectoryError"}

(***************************************************************************)
(* C1: a record is emitted only for a recentPaths entry whose              *)
(* home-expanded path exists; an entry whose path does not exist yields no *)
(* record and no exception.                                                *)
(***************************************************************************)
OnlyExistingPathsEmitted ==
    \A p \in ProductIds :
        /\ \A i \in 1..Len(Yielded(p)) :
              \E k \in 1..Len(Values(p)) :
                  MadeFrom(Yielded(p)[i], p, k) /\ Exists(fs, Resolved(p, k))
        /\ \A k \in 1..Len(Values(p)) :
              ~Exists(fs, Resolved(p, k)) =>
                  /\ \A i \in 1..Len(Yielded(p)) : ~MadeFrom(Yielded(p)[i], p, k)
                  /\ ~(exc.product = p /\ exc.entry = k)

\* A successful run that skipped one entry of a product and emitted another.
MissingEntrySkipped ==
    /\ pc = "done"
    /\ exitStatus = 0
    /\ \E p \in ProductIds :
          /\ Len(Values(p)) = 2
          /\ Len(projects[p][2]) = 1
          /\ ~Exists(fs, Resolved(p, 1))

(***************************************************************************)
(* C2: a run writes exactly one JSON document: the success object with     *)
(* exit status 0, or, when an exception left the discovery, an error       *)
(* object with kind, message and traceback and a non-zero exit status; a   *)
(* failing run writes no success object and none of the projects found     *)
(* before the failure.                                                     *)
(***************************************************************************)
OneJsonDocument ==
    /\ pc # "done" => stdout = <<>> /\ exitStatus = -1
    /\ exc # NoException => pc \in {"raised", "done"}
    /\ pc = "done" =>
          /\ Len(stdout) = 1
          /\ IF exc = NoException
             THEN /\ stdout[1] = [kind |-> "success", projects |-> projects]
                  /\ Len(projects) = Len(PRODUCTS)
                  /\ exitStatus = 0
             ELSE /\ DOMAIN stdout[1] = {"kind", "message", "traceback"}
                  /\ stdout[1].kind = "error"
                  /\ exitStatus \notin {0, -1}
          /\ (\E p \in ProductIds :
                \/ \E i \in 1..Len(configDirs[p]) :
                      product_version(configDirs[p][i]).raised # "none"
                \/ configDirs[p] # <<>> /\ xmlFiles[p].at # "none" /\ ~xmlFiles[p].wellFormed)
             => stdout[1].kind = "error"

\* A run that failed after an earlier product had yielded records.
FailedAfterRecords ==
    /\ pc = "done"
    /\ stdout[1].kind = "error"
    /\ \E q \in 1..Len(projects) : projects[q][2] # <<>>

LatestIsMaximalVersion ==
    (Returned /\ \A i \in 1..Len(lenum) : IsVersionForm(lenum[i])) =>
        \A j \in 1..Len(lenum) :
            VersionAtLeast(FullVersion(lenum[lselected]), FullVersion(lenum[j]))

(***************************************************************************)
(* C5: records of two different products never have the same id.           *)
(***************************************************************************)
IdsDistinctAcrossProducts ==
    \A p, q \in ProductIds :
        p # q =>
            \A i \in 1..Len(Yielded(p)) : \A j \in 1..Len(Yielded(q)) :
                Yielded(p)[i].id # Yielded(q)[j].id

(***************************************************************************)
(* C6: the name of a record is the content of .idea/.name in the project   *)
(* directory (the parent of the resolved path when that is a file, else    *)
(* the resolved path), and the base name of the project directory when     *)
(* that file is absent.                                                    *)
(***************************************************************************)
NameFromProjectDirectory ==
    \A p \in ProductIds : \A i \in 1..Len(Yielded(p)) : \A k \in 1..Len(Values(p)) :
        MadeFrom(Yielded(p)[i], p, k) =>
            /\ read_text(fs, Sidecar(p, k)).raised = "none" =>
                  Yielded(p)[i].name = Concat(strip(NameFileContent))
            /\ read_text(fs, Sidecar(p, k)).raised = "FileNotFoundError" =>
                  Yielded(p)[i].name = ProjectDirName(p, k)

(***************************************************************************)
(* C7, as claimed: the file is options/recentSolutions.xml for rider,      *)
(* config/options/recentProjects.xml for a pre-2020 IDEA directory and     *)
(* options/recentProjects.xml otherwise, below the selected directory.     *)
(***************************************************************************)
ClaimedRecentFile(key, version) ==
    IF key = "rider" THEN "options/recentSolutions.xml"
    ELSE IF key \in {"idea", "idea-ce"} /\ version[1] < 2020
    THEN "config/options/recentProjects.xml"
    ELSE "options/recentProjects.xml"

RecentFileWithLegacyLayout ==
    Returned =>
        lfile = [dir |-> lenum[lselected],
                 rel |-> ClaimedRecentFile(PRODUCTS[lproduct].key,
                                           product_version(lenum[lselected]).value)]

(***************************************************************************)
(* C7, amended: the file is options/recentSolutions.xml for rider and      *)
(* options/recentProjects.xml for every other product, whatever the        *)
(* version, below the selected directory, whose version is the greatest.   *)
(***************************************************************************)
RecentFileByProductOnly ==
    Returned =>
        /\ lselected \in Tied
        /\ lfile.dir = lenum[lselected]
        /\ lfile.rel = IF PRODUCTS[lproduct].key = "rider"
                       THEN "options/recentSolutions.xml"
                       ELSE "options/recentProjects.xml"

\* A pre-2020 IDEA directory is selected.
LegacyIdeaSelected ==
    /\ Returned
    /\ PRODUCTS[lproduct].key = "idea"
    /\ product_version(lenum[lselected]).value[1] < 2020
    /\ lfile.rel = "options/recentProjects.xml"

(***************************************************************************)
(* C8: product_version returns the numeric values of the full digit runs   *)
(* of every name of the form <prefix>\d{4}\.\d+ and raises ValueError for  *)
(* every other name.                                                       *)
(***************************************************************************)
VersionExtractionAsSpecified ==
    vresult # NotParsed =>
        IF IsVersionForm(vname)
        THEN vresult = [raised |-> "none", value |-> FullVersion(vname)]
        ELSE vresult.raised = "ValueError"

(***************************************************************************)
(* C9, as claimed: no error of reading the sidecar file leaves             *)
(* get_project.                                                            *)
(***************************************************************************)
SidecarErrorsRecovered == exc.entry = 0

(***************************************************************************)
(* C9, amended: only a missing sidecar file is recovered in get_project,   *)
(* and the record then has the base name of the stored path; any other     *)
(* error of reading it leaves get_project, no record is made of that       *)
(* entry and the run ends with the error object and exit status 1.         *)
(***************************************************************************)
OnlyMissingSidecarRecovered ==
    /\ exc.entry # 0 =>
          /\ exc.type \in SidecarErrors
          /\ exc.type = read_text(fs, NameFile(fs, ValueToPath(Values(exc.product)[exc.entry]))).raised
          /\ pc = "done" => stdout[1].kind = "error" /\ exitStatus = 1
    /\ \A p \in ProductIds : \A i \in 1..Len(Yielded(p)) : \A k \in 1..Len(Values(p)) :
          MadeFrom(Yielded(p)[i], p, k) =>
              LET read == read_text(fs, NameFile(fs, ValueToPath(Values(p)[k]))) IN
              /\ read.raised \notin SidecarErrors
              /\ read.raised = "FileNotFoundError" =>
                    Yielded(p)[i].name = BaseName(ValueToPath(Values(p)[k]))

\* A run that recovered from a missing sidecar file for one product and
\* failed on another error of a sidecar file for a later one.
RecoveredThenFailed ==
    /\ pc = "done"
    /\ exc.entry # 0
    /\ exc.type \in SidecarErrors
    /\ \E q \in 1..Len(projects) : \E i \in 1..Len(projects[q][2]) :
          \E k \in 1..Len(Values(q)) :
              /\ MadeFrom(projects[q][2][i], q, k)
              /\ read_text(fs, NameFile(fs, ValueToPath(Values(q)[k]))).raised = "FileNotFoundError"

(***************************************************************************)
(* C10, as claimed: of the directories that share the greatest version the *)
(* one enumerated last is selected, and the same directory is selected     *)
(* when the enumeration runs in another order.                             *)
(***************************************************************************)
TieBrokenByLast ==
    Returned =>
        /\ \A i \in Tied : i <= lselected
        /\ Reverse(lenum)[MaxConfigDir(Reverse(lenum)).index] = lenum[lselected]

(***************************************************************************)
(* C10, amended: of the directories that share the greatest version the    *)
(* one enumerated first is selected, so that with two or more of them the  *)
(* reversed enumeration selects another directory.                         *)
(***************************************************************************)
TieBrokenByFirst ==
    Returned =>
        /\ lselected \in Tied
        /\ \A i \in Tied : lselected <= i
        /\ Cardinality(Tied) >= 2 =>
              Reverse(lenum)[MaxConfigDir(Reverse(lenum)).index] # lenum[lselected]

\* Two directories share the greatest version.
TieSelected ==
    /\ Returned
    /\ Cardinality(Tied) >= 2

====
